---------------------------- MODULE Spec2Model ----------------------------
(***************************************************************************)
(* A model of alchemark_ai: FormatterMD, the annotation and alignment      *)
(* engine that pairs the tables and images an extraction engine detected   *)
(* structurally with the table blocks and image payloads found in the page *)
(* text by pattern matching, and scans the text for titles, list entries   *)
(* and links; PDF2MarkDown, which checks the file and validates what the   *)
(* extraction engine returned; and pdf2md(), which runs the one after the  *)
(* other.                                                                  *)
(*                                                                         *)
(* A Python str is modelled as a sequence of lexemes.  A lexeme is either  *)
(* a single character or one of the literal words of the patterns and      *)
(* texts ("data:image/", ";base64,", "<img", "src", "png", "IMAGE",        *)
(* "http://", "https://", "endoftext"), or an md5 hex digest.  No lexeme   *)
(* of several characters holds a character that a pattern names or         *)
(* split("=") looks for ( ! [ ] ( ) ; " < > = | # . - * + space newline )  *)
(* anywhere but as its first character, none lies in the class [-:| ], and *)
(* a digest never stands where a pattern looks for a digit, so matching    *)
(* lexeme by lexeme is matching character by character.  Python's None is  *)
(* the one-lexeme sequence None, whose lexeme occurs in no text.           *)
(***************************************************************************)
EXTENDS Naturals, Sequences, FiniteSets, TLC

\* ------------------------------------------------------------------ bounds
\* the longest page text, in segments
MaxSegs == 3
\* the most structural tables of a page
MaxTables == 2
\* the most structural images of a page
MaxImages == 2
\* the most calls of format() on one FormatterMD
MaxCalls == 2
\* the most pages of a batch of several pages
MaxPages == 2

\* ------------------------------------------------------------- str helpers
None == <<"None">>

\* Python truthiness of an Optional[str]
Truthy(s) == s # None /\ s # <<>>

Min(S) == CHOOSE x \in S : \A y \in S : x <= y

Max(S) == CHOOSE x \in S : \A y \in S : x >= y

\* the first position >= from of t holding one of the lexemes of L, 0 if none
RECURSIVE FirstOf(_, _, _)
FirstOf(t, from, L) ==
    IF from > Len(t) THEN 0
    ELSE IF t[from] \in L THEN from ELSE FirstOf(t, from + 1, L)

\* len(s): the number of characters of s
RECURSIVE CharLen(_)
CharLen(s) == IF s = <<>> THEN 0 ELSE Len(Head(s)) + CharLen(Tail(s))

\* s occurs in t as a contiguous run of lexemes
Contains(t, s) ==
    \E i \in 1..(Len(t) + 1) :
        /\ i + Len(s) - 1 <= Len(t)
        /\ \A k \in 1..Len(s) : t[i + k - 1] = s[k]

\* ------------------------------------------------------------ the inputs
\* the payloads of the images of the texts
PayloadEq == <<"data:image/", "png", ";base64,", "A", "=", "B">>

PayloadNoEq == <<"data:image/", "png", ";base64,", "B">>

\* ![x](data:image/png;base64,A=B)
MdImageEq == <<"!", "[", "x", "]", "(">> \o PayloadEq \o <<")">>

\* ![](data:image/png;base64,B)
MdImageNoEq == <<"!", "[", "]", "(">> \o PayloadNoEq \o <<")">>

\* <img src="data:image/png;base64,A=B">
HtmlImage == <<"<img", " ", "src", "=", "\"">> \o PayloadEq \o <<"\"", ">">>

\* a stray ![ that opens no image
Stray == <<"!", "[">>

\* |a|\n|-|\n|a|\n
TableA == <<"|", "a", "|", "\n", "|", "-", "|", "\n", "|", "a", "|", "\n">>

\* \n|b|\n|:|\n|b|\n, a table block after a blank line
TableB == <<"\n", "|", "b", "|", "\n", "|", ":", "|", "\n", "|", "b", "|", "\n">>

Segments == {MdImageEq, MdImageNoEq, HtmlImage, Stray, TableA, TableB}

RECURSIVE TextsUpTo(_)
TextsUpTo(k) ==
    IF k = 0 THEN {<<>>}
    ELSE LET prev == TextsUpTo(k - 1)
         IN  prev \cup {t \o s : t \in prev, s \in Segments}

Texts == TextsUpTo(MaxSegs)


\* ------------------------------------------------- the patterns of the code
\* \](  (data:image\/[^;]+;base64,[^)]+)  \)  matched at q: the position of the
\* closing parenthesis, 0 when it does not match.  [^;]+ runs to the first
\* semicolon, which must open ;base64, and [^)]+ to the first parenthesis.
MdTailEnd(t, q) ==
    IF ~(q + 2 <= Len(t) /\ t[q] = "]" /\ t[q + 1] = "(" /\ t[q + 2] = "data:image/")
    THEN 0
    ELSE LET semi == FirstOf(t, q + 3, {";", ";base64,"})
         IN  IF ~(semi > q + 3 /\ t[semi] = ";base64,") THEN 0
             ELSE LET close == FirstOf(t, semi + 1, {")"})
                  IN  IF close > semi + 1 THEN close ELSE 0

\* !\[.*?\]\((data:image\/[^;]+;base64,[^)]+)\) matched at p: .*? is lazy, so
\* the alt text ends at the first ]( from which the rest matches; without
\* re.DOTALL the alt text holds no line break.
\* [from |-> p, to |-> position of ")", payload |-> group 1], to = 0: no match.
MdImageAt(t, p, dotall) ==
    IF ~(p + 1 <= Len(t) /\ t[p] = "!" /\ t[p + 1] = "[")
    THEN [from |-> p, to |-> 0, payload |-> <<>>]
    ELSE LET nl == IF dotall THEN 0 ELSE FirstOf(t, p + 2, {"\n"})
             last == IF nl = 0 THEN Len(t) ELSE nl
             Q == {q \in (p + 2)..last : MdTailEnd(t, q) # 0}
         IN  IF Q = {} THEN [from |-> p, to |-> 0, payload |-> <<>>]
             ELSE LET q == Min(Q)
                      close == MdTailEnd(t, q)
                  IN  [from |-> p, to |-> close,
                       payload |-> SubSeq(t, q + 2, close - 1)]

\* src="(data:image\/[^;]+;base64,[^"]+)"[^>]*> matched at s: the position of
\* the closing >, 0 when it does not match.
HtmlTailEnd(t, s) ==
    IF ~(/\ s + 3 <= Len(t)
          /\ t[s] = "src" /\ t[s + 1] = "=" /\ t[s + 2] = "\""
          /\ t[s + 3] = "data:image/")
    THEN 0
    ELSE LET semi == FirstOf(t, s + 4, {";", ";base64,"})
         IN  IF ~(semi > s + 4 /\ t[semi] = ";base64,") THEN 0
             ELSE LET quote == FirstOf(t, semi + 1, {"\""})
                  IN  IF ~(quote > semi + 1) THEN 0
                      ELSE FirstOf(t, quote + 1, {">"})

\* <img[^>]*src="(data:image\/[^;]+;base64,[^"]+)"[^>]*> matched at p: [^>]* is
\* greedy, so of the src= reachable without crossing a > the last one from
\* which the rest matches is taken.
HtmlImageAt(t, p) ==
    IF ~(p <= Len(t) /\ t[p] = "<img")
    THEN [from |-> p, to |-> 0, payload |-> <<>>]
    ELSE LET gt == FirstOf(t, p + 1, {">"})
             last == IF gt = 0 THEN Len(t) ELSE gt
             S == {s \in (p + 1)..last : HtmlTailEnd(t, s) # 0}
         IN  IF S = {} THEN [from |-> p, to |-> 0, payload |-> <<>>]
             ELSE LET s == Max(S)
                      semi == FirstOf(t, s + 4, {";", ";base64,"})
                      quote == FirstOf(t, semi + 1, {"\""})
                  IN  [from |-> p, to |-> HtmlTailEnd(t, s),
                       payload |-> SubSeq(t, s + 3, quote - 1)]

\* re.findall(image_pattern, text, re.MULTILINE) from position p on: one pair
\* (group 1, group 2) per match, the group of the alternative that did not
\* match being the empty string.
RECURSIVE FindImages(_, _)
FindImages(t, p) ==
    IF p > Len(t) THEN <<>>
    ELSE LET md == MdImageAt(t, p, FALSE)
             html == HtmlImageAt(t, p)
         IN  IF md.to # 0 THEN <<<<md.payload, <<>>>>>> \o FindImages(t, md.to + 1)
             ELSE IF html.to # 0
                  THEN <<<<<<>>, html.payload>>>> \o FindImages(t, html.to + 1)
                  ELSE FindImages(t, p + 1)

\* FormatterMD._extract_images
ExtractImages(text) == FindImages(text, 1)

\* re.sub(r'!\[.*?\]\((data:image\/[^;]+;base64,[^)]+)\)', repl, text,
\* flags=re.DOTALL) from position p on: every match replaced by repl.
RECURSIVE SubMdImages(_, _, _)
SubMdImages(t, p, repl) ==
    IF p > Len(t) THEN <<>>
    ELSE LET md == MdImageAt(t, p, TRUE)
         IN  IF md.to # 0 THEN repl \o SubMdImages(t, md.to + 1, repl)
             ELSE <<t[p]>> \o SubMdImages(t, p + 1, repl)

\* \|[^\n]*\|\n matched at p (sep = FALSE), or \|[-:| ]*\|\n (sep = TRUE): the
\* position of the line break, 0 when it does not match.  The line runs from
\* the | at p to the first line break, and ends with a second |.
RowEnd(t, p, sep) ==
    IF ~(p <= Len(t) /\ t[p] = "|") THEN 0
    ELSE LET nl == FirstOf(t, p + 1, {"\n"})
         IN  IF /\ nl > p + 1
                /\ t[nl - 1] = "|"
                /\ sep => \A k \in (p + 1)..(nl - 2) : t[k] \in {"-", ":", "|", " "}
             THEN nl ELSE 0

\* the positions of the line breaks of the run of consecutive |...|\n lines
\* that starts at p
RECURSIVE RowRun(_, _)
RowRun(t, p) ==
    LET e == RowEnd(t, p, FALSE)
    IN  IF e = 0 THEN <<>> ELSE <<e>> \o RowRun(t, e + 1)

\* (?:\|[^\n]*\|\n)+(?:\|[-:| ]*\|\n)(?:\|[^\n]*\|\n)+ matched at p: the position
\* of the last line break, 0 when it does not match.  Of a run of k lines the
\* first group takes j >= 1 lines, line j + 1 is the separator and the last
\* group, being greedy, takes all of the k - j - 1 >= 1 lines left.
TableEnd(t, p) ==
    LET run == RowRun(t, p)
        k == Len(run)
        start(j) == IF j = 1 THEN p ELSE run[j - 1] + 1
    IN  IF \E j \in 1..(k - 2) : RowEnd(t, start(j + 1), TRUE) # 0
        THEN run[k] ELSE 0

\* re.findall(table_pattern, text, re.MULTILINE) from position p on
RECURSIVE FindTables(_, _)
FindTables(t, p) ==
    IF p > Len(t) THEN <<>>
    ELSE LET e == TableEnd(t, p)
         IN  IF e # 0 THEN <<SubSeq(t, p, e)>> \o FindTables(t, e + 1)
             ELSE FindTables(t, p + 1)

\* FormatterMD._extract_tables
ExtractTables(text) == FindTables(text, 1)

\* ------------------------------------------------------ the collaborators
\* hashlib.md5(payload.encode()).hexdigest(), on the payloads of the texts
Md5(payload) ==
    CASE payload = PayloadEq -> <<"4d92fa9c5e69d18fb64ba5fc0825805a">>
      [] payload = PayloadNoEq -> <<"9f92a9196b0f98a514590992010bbc9a">>

\* len(self.encoding.encode(text)): the tokenizer is a pure function of the
\* text; here it counts one token per lexeme.
EncodeCount(text) == Len(text)

\* <|endoftext|>, a special token of the encoding of gpt-4o
SpecialToken == <<"<", "|", "endoftext", "|", ">">>

\* self.encoding.encode(text) raises: with the default disallowed_special the
\* tokenizer refuses a text that holds a special token
EncodeFails(text) == Contains(text, SpecialToken)

\* str(e) of the ValueError the tokenizer raises
EncodeError == <<"Encountered text corresponding to disallowed special token '<|endoftext|>'.">>

\* what langdetect's detect() may do on a text
DetectOutcomes == {"en", "raise"}

\* text.strip()
IsSpace(l) == l \in {" ", "\n"}

Strip(text) ==
    LET S == {i \in 1..Len(text) : ~IsSpace(text[i])}
    IN  IF S = {} THEN <<>> ELSE SubSeq(text, Min(S), Max(S))

\* --------------------------------------------------- the markdown elements
\* ^ under re.MULTILINE: p is the start of the text or follows a line break
LineStart(t, p) == p = 1 \/ t[p - 1] = "\n"

\* \s and \d on the lexemes of the texts
Spaces == {" ", "\n"}

Digits == {"1", "2"}

\* the first position >= p of t whose lexeme is not in L, Len(t) + 1 if none:
\* where a greedy run of L that starts at p ends
RECURSIVE PastRun(_, _, _)
PastRun(t, p, L) ==
    IF p > Len(t) THEN p
    ELSE IF t[p] \in L THEN PastRun(t, p + 1, L) ELSE p

\* the marker of a line pattern matched at q: the position after it, 0 when it
\* does not match.  #{1,6} of the titles and \d+[.)] of the ordered lists are
\* greedy runs that what follows cannot shorten; [-*+] is one character.
MarkerEnd(t, q, kind) ==
    CASE kind = "title" ->
            LET h == PastRun(t, q, {"#"})
            IN  IF h - q >= 1 /\ h - q <= 6 THEN h ELSE 0
      [] kind = "ordered" ->
            LET d == PastRun(t, q, Digits)
            IN  IF d > q /\ d <= Len(t) /\ t[d] \in {".", ")"} THEN d + 1 ELSE 0
      [] kind = "unordered" ->
            IF q <= Len(t) /\ t[q] \in {"-", "*", "+"} THEN q + 1 ELSE 0

\* \s+.+ matched at m: the position of the last character, 0 when it does not
\* match.  \s+ is greedy and crosses line breaks; it gives back characters
\* only while what follows it is a line break or the end of the text, and .+
\* then runs to the end of its line.
TailEnd(t, m) ==
    LET w == PastRun(t, m, Spaces)
        C == {c \in (m + 1)..(IF w <= Len(t) THEN w ELSE Len(t)) : t[c] # "\n"}
    IN  IF C = {} THEN 0
        ELSE LET nl == FirstOf(t, Max(C), {"\n"})
             IN  IF nl = 0 THEN Len(t) ELSE nl - 1

\* ^\s*#{1,6}\s+.+$ (kind title), ^\s*\d+[.)]\s+.+ (ordered) or
\* ^\s*[-*+]\s+.+ (unordered) matched at p: the position of the last character,
\* 0 when it does not match.  \s* is greedy and crosses line breaks.
LineItemEnd(t, p, kind) ==
    IF ~LineStart(t, p) THEN 0
    ELSE LET m == MarkerEnd(t, PastRun(t, p, Spaces), kind)
         IN  IF m = 0 THEN 0 ELSE TailEnd(t, m)

\* re.findall scans from left to right and resumes after each match: of the
\* positions P where the pattern matches, the first one >= p is taken, and
\* the scan goes on after the end EndAt[q] of its match
RECURSIVE Leftmost(_, _, _)
Leftmost(P, EndAt, p) ==
    LET rest == {q \in P : q >= p}
    IN  IF rest = {} THEN <<>>
        ELSE LET q == Min(rest)
             IN  <<q>> \o Leftmost(P, EndAt, EndAt[q] + 1)

\* re.findall(line pattern, text, re.MULTILINE), as the spans [from, to] of
\* the matches
LineSpans(t, kind) ==
    LET P == {p \in 1..Len(t) : LineItemEnd(t, p, kind) # 0}
        EndAt == [p \in P |-> LineItemEnd(t, p, kind)]
        starts == Leftmost(P, EndAt, 1)
    IN  [i \in 1..Len(starts) |-> [from |-> starts[i], to |-> EndAt[starts[i]]]]

\* the strings re.findall returns for a pattern without groups
SpanTexts(t, spans) == [i \in 1..Len(spans) |-> SubSeq(t, spans[i].from, spans[i].to)]

\* \[([^\]]+)\]\(([^)]+)\) matched at p: to is the position of the closing
\* parenthesis, 0 when it does not match
MdLinkAt(t, p) ==
    LET close == FirstOf(t, p + 1, {"]"})
        paren == FirstOf(t, close + 2, {")"})
    IN  IF /\ p <= Len(t) /\ t[p] = "["
           /\ close > p + 1
           /\ close + 1 <= Len(t) /\ t[close + 1] = "("
           /\ paren > close + 2
        THEN [from |-> p, to |-> paren,
              text |-> SubSeq(t, p + 1, close - 1),
              url |-> SubSeq(t, close + 2, paren - 1)]
        ELSE [from |-> p, to |-> 0, text |-> <<>>, url |-> <<>>]

\* <(https?://[^>]+)> matched at p
AutoLinkAt(t, p) ==
    LET gt == FirstOf(t, p + 2, {">"})
    IN  IF /\ p + 1 <= Len(t) /\ t[p] = "<" /\ t[p + 1] \in {"http://", "https://"}
           /\ gt > p + 2
        THEN [from |-> p, to |-> gt, url |-> SubSeq(t, p + 1, gt - 1)]
        ELSE [from |-> p, to |-> 0, url |-> <<>>]

\* re.findall of the two link patterns, as matches
MdLinkMatches(t) ==
    LET P == {p \in 1..Len(t) : t[p] = "[" /\ MdLinkAt(t, p).to # 0}
        EndAt == [p \in P |-> MdLinkAt(t, p).to]
        starts == Leftmost(P, EndAt, 1)
    IN  [i \in 1..Len(starts) |-> MdLinkAt(t, starts[i])]

AutoLinkMatches(t) ==
    LET P == {p \in 1..Len(t) : t[p] = "<" /\ AutoLinkAt(t, p).to # 0}
        EndAt == [p \in P |-> AutoLinkAt(t, p).to]
        starts == Leftmost(P, EndAt, 1)
    IN  [i \in 1..Len(starts) |-> AutoLinkAt(t, starts[i])]

\* links with the bare autolinks before the bracket links
LinksAutoFirst(text) ==
    LET md == MdLinkMatches(text)
        html == AutoLinkMatches(text)
    IN  [i \in 1..Len(html) |-> [text |-> html[i].url, url |-> html[i].url]]
            \o [i \in 1..Len(md) |-> [text |-> md[i].text, url |-> md[i].url]]

\* links = [Link(text, url) for md_links] + [Link(url, url) for html_links]
Links(text) ==
    LET md == MdLinkMatches(text)
        html == AutoLinkMatches(text)
    IN  [i \in 1..Len(md) |-> [text |-> md[i].text, url |-> md[i].url]]
            \o [i \in 1..Len(html) |-> [text |-> html[i].url, url |-> html[i].url]]

Titles(text) == SpanTexts(text, LineSpans(text, "title"))

\* lists = ordered_lists + unordered_lists
Lists(text) ==
    SpanTexts(text, LineSpans(text, "ordered"))
        \o SpanTexts(text, LineSpans(text, "unordered"))

\* FormatterMD._count_markdown_elements
CountMarkdownElements(text) ==
    [titles |-> Titles(text), lists |-> Lists(text), links |-> Links(text)]

\* ---------------------------------------------------------- the page records
\* the i-th table the extraction engine detected on a page
StructTable(i) == [bbox |-> <<i, 2 * i, i + 10, 2 * i + 10>>, rows |-> i + 1, columns |-> i + 2]

\* the i-th image the extraction engine detected on a page
StructImage(i) ==
    [number |-> i, bbox |-> <<3 * i, i, 3 * i + 5, i + 5>>, width |-> 100 * i, height |-> 50 * i]

PageMetadata == [file_path |-> "doc.pdf", page |-> 1, page_count |-> 1]

\* a PDFResult
Page(text, nTables, nImages) ==
    [isPDFResult |-> TRUE,
     metadata |-> PageMetadata,
     text |-> text,
     tables |-> [i \in 1..nTables |-> StructTable(i)],
     images |-> [i \in 1..nImages |-> StructImage(i)]]

Pages == {Page(t, nT, nI) : t \in Texts, nT \in 0..MaxTables, nI \in 0..MaxImages}

\* an element of a batch that is no PDFResult
NotAPage == [isPDFResult |-> FALSE]

\* what FormatterMD may be constructed with: a list of one page, an empty
\* list, a list holding something else than a page, and a bare page
Batches ==
    {[isList |-> TRUE, items |-> <<pg>>] : pg \in Pages}
        \cup {[isList |-> TRUE, items |-> <<>>],
              [isList |-> TRUE, items |-> <<NotAPage>>],
              [isList |-> FALSE, items |-> <<Page(Stray, 0, 0)>>]}

\* ------------------------------------------------- FormatterMD.format, a page
\* table_content looked up one place too far
TableContentOffByOne(extracted_tables, i) ==
    IF i + 1 <= Len(extracted_tables) THEN extracted_tables[i + 1] ELSE None

\* table_content of the i-th structural table (i counted from 1)
TableContent(extracted_tables, i) ==
    IF i <= Len(extracted_tables) THEN extracted_tables[i] ELSE None

\* tables_with_content holding only the tables a textual block was found for
TablesWithContentMatchedOnly(item, extracted_tables) ==
    [i \in 1..(IF Len(item.tables) <= Len(extracted_tables)
               THEN Len(item.tables) ELSE Len(extracted_tables)) |->
        [bbox |-> item.tables[i].bbox,
         rows |-> item.tables[i].rows,
         columns |-> item.tables[i].columns,
         content |-> extracted_tables[i]]]

\* tables_with_content
TablesWithContent(item, extracted_tables) ==
    [i \in 1..Len(item.tables) |->
        [bbox |-> item.tables[i].bbox,
         rows |-> item.tables[i].rows,
         columns |-> item.tables[i].columns,
         content |-> TableContent(extracted_tables, i)]]

\* image_content of the i-th structural image (i counted from 1): group 1 of
\* the i-th match, the empty string when there is none or it is empty
ImageContent(extracted_images, i) ==
    IF i <= Len(extracted_images) /\ Truthy(extracted_images[i][1])
    THEN extracted_images[i][1] ELSE <<>>

\* image_hash
ImageHash(image_content) ==
    IF Truthy(image_content) THEN Md5(image_content) ELSE None

\* f'[IMAGE]({image_hash})'
ImageRef(image_hash) == <<"[", "IMAGE", "]", "(">> \o image_hash \o <<")">>

\* image_content.split("=")[0]
SplitEqHead(image_content) ==
    LET eq == FirstOf(image_content, 1, {"="})
    IN  IF eq = 0 THEN image_content ELSE SubSeq(image_content, 1, eq - 1)

\* the base64 field of the Image: f'{image_content.split("=")[0]}=' of a
\* non-empty image_content, image_content itself otherwise
StoredPayload(image_content) ==
    IF Truthy(image_content) THEN SplitEqHead(image_content) \o <<"=">>
    ELSE image_content

\* item.text after the body of the loop over item.images for one image
RewrittenText(text, image_content, keep) ==
    IF Truthy(image_content) /\ ~keep
    THEN SubMdImages(text, 1, ImageRef(ImageHash(image_content)))
    ELSE text

\* the loop over item.images from the i-th image on; st is item.text and
\* images_with_content so far
RECURSIVE ImageLoop(_, _, _, _, _)
ImageLoop(images, extracted_images, keep, i, st) ==
    IF i > Len(images) THEN st
    ELSE LET image_content == ImageContent(extracted_images, i)
         IN  ImageLoop(images, extracted_images, keep, i + 1,
                 [text |-> RewrittenText(st.text, image_content, keep),
                  out |-> Append(st.out,
                      [number |-> images[i].number,
                       bbox |-> images[i].bbox,
                       width |-> images[i].width,
                       height |-> images[i].height,
                       base64 |-> StoredPayload(image_content),
                       hash |-> ImageHash(image_content)])])

\* text_length of the FormattedMetadata
TextLength(text) == IF Truthy(text) THEN CharLen(text) ELSE 0

\* tokens of the FormattedResult
Tokens(text) == IF Truthy(text) THEN EncodeCount(text) ELSE 0

\* language taken from the detector whatever it did
LanguageUnguarded(text, detect) ==
    IF Truthy(text) /\ Strip(text) # <<>> THEN <<detect>> ELSE None

\* language of the FormattedResult, detect being what detect_language did
Language(text, detect) ==
    IF Truthy(text) /\ Strip(text) # <<>> /\ detect # "raise" THEN <<detect>> ELSE None

\* formatted_data with text_length and tokens taken from the text as it was
\* before the loop over item.images rewrote it
AssembleBeforeRewrite(item, st, extracted_tables, markdown_elements) ==
    [metadata |-> [file_path |-> item.metadata.file_path,
                   page |-> item.metadata.page,
                   page_count |-> item.metadata.page_count,
                   text_length |-> TextLength(item.text)],
     elements |-> [tables |-> TablesWithContent(item, extracted_tables),
                   images |-> st.out,
                   titles |-> markdown_elements.titles,
                   lists |-> markdown_elements.lists,
                   links |-> markdown_elements.links],
     text |-> IF Truthy(st.text) THEN st.text ELSE <<>>,
     tokens |-> Tokens(item.text),
     language |-> None]

\* formatted_data as constructed, language = None: st is item.text and
\* images_with_content as the loop over item.images left them
Assemble(item, st, extracted_tables, markdown_elements) ==
    [metadata |-> [file_path |-> item.metadata.file_path,
                   page |-> item.metadata.page,
                   page_count |-> item.metadata.page_count,
                   text_length |-> TextLength(st.text)],
     elements |-> [tables |-> TablesWithContent(item, extracted_tables),
                   images |-> st.out,
                   titles |-> markdown_elements.titles,
                   lists |-> markdown_elements.lists,
                   links |-> markdown_elements.links],
     text |-> IF Truthy(st.text) THEN st.text ELSE <<>>,
     tokens |-> Tokens(st.text),
     language |-> None]

\* one turn of the loop over self.content up to the language detection:
\* item.text when it is over, formatted_data, and error: the message of the
\* exception that ended the turn, None when there was none.  An item without
\* a text attribute fails at once; the tokenizer fails after the loop over
\* item.images has rewritten item.text.
FormatItem(item, keep) ==
    IF ~item.isPDFResult
    THEN [text |-> None, formatted |-> None,
          error |-> <<"'dict' object has no attribute 'text'">>]
    ELSE LET markdown_elements == CountMarkdownElements(item.text)
             extracted_tables == ExtractTables(item.text)
             extracted_images == ExtractImages(item.text)
             st == ImageLoop(item.images, extracted_images, keep, 1,
                             [text |-> item.text, out |-> <<>>])
         IN  IF Truthy(st.text) /\ EncodeFails(st.text)
             THEN [text |-> st.text, formatted |-> None, error |-> EncodeError]
             ELSE [text |-> st.text,
                   formatted |-> Assemble(item, st, extracted_tables, markdown_elements),
                   error |-> None]

\* _check_content looking at the type of the first element only
CheckContentFirstOnly(c) ==
    IF ~c.isList THEN <<"[FORMATTER] Content must be a List of PDFResult.">>
    ELSE IF Len(c.items) = 0 THEN <<"[FORMATTER] Content is empty.">>
         ELSE IF ~c.items[1].isPDFResult
              THEN <<"[FORMATTER] Content must be a List of PDFResult.">>
              ELSE None

\* FormatterMD._check_content: the message of the ValueError, None when the
\* content passes
CheckContent(c) ==
    IF ~c.isList THEN <<"[FORMATTER] Content must be a List of PDFResult.">>
    ELSE IF \E i \in 1..Len(c.items) : ~c.items[i].isPDFResult
         THEN <<"[FORMATTER] Content must be a List of PDFResult.">>
         ELSE IF Len(c.items) = 0 THEN <<"[FORMATTER] Content is empty.">>
              ELSE None

\* ------------------------------------------------------------ the machine
VARIABLES
    content,             \* self.content
    keep_images_inline,  \* self.keep_images_inline
    pc,                  \* unbuilt, idle, loop (inside format), returned, raised
    idx,                 \* the page the loop of format is at, from 1
    results,             \* results, the list format is building
    outcome,             \* what the last call returned, or the message it raised
    before,              \* self.content as it was when the call began
    calls,               \* the calls of format() so far
    detected,            \* what detect_language did on each page of this call
    history,             \* what the calls of format() that returned, returned
    conv                 \* the PDF2MarkDown of pdf2md(), see below

vars ==
    <<content, keep_images_inline, pc, idx, results, outcome, before, calls,
      detected, history, conv>>

\* no PDF2MarkDown: the FormatterMD is constructed directly
NoConv == [pc |-> "none"]

Init ==
    /\ content \in Batches
    /\ keep_images_inline \in BOOLEAN
    /\ pc = "idle"
    /\ idx = 0
    /\ results = <<>>
    /\ outcome = None
    /\ before = content
    /\ calls = 0
    /\ detected = <<>>
    /\ history = <<>>
    /\ conv = NoConv

\* format() is called, for the first time or after an earlier call is over
\* (again = TRUE): self._check_content(), which raises or lets the loop begin
\* with results = []
CallWhen(again) ==
    /\ IF again THEN pc \in {"idle", "returned", "raised"} /\ calls < MaxCalls
       ELSE pc = "idle"
    /\ calls' = calls + 1
    /\ before' = content
    /\ results' = <<>>
    /\ detected' = <<>>
    /\ IF CheckContent(content) # None
       THEN /\ pc' = "raised"
            /\ outcome' = <<"[FORMATTER] Error formatting content: ">> \o CheckContent(content)
            /\ idx' = 0
       ELSE /\ pc' = "loop"
            /\ outcome' = None
            /\ idx' = 1
    /\ UNCHANGED <<content, keep_images_inline, history, conv>>

\* the first call of format() on a FormatterMD
Call == CallWhen(FALSE)

\* what detect_language may do on the final text of a page: it is called only
\* on a text that is not empty and not all whitespace
DetectionsOn(text) ==
    IF Truthy(text) /\ Strip(text) # <<>> THEN DetectOutcomes ELSE {"skipped"}

\* one turn of the loop of format over self.content: the page is appended to
\* results, or an exception ends the call, results being dropped
Turn ==
    /\ pc = "loop"
    /\ idx <= Len(content.items)
    /\ \E r \in {FormatItem(content.items[idx], keep_images_inline)} :
           IF r.error # None
           THEN /\ content' = IF r.text = None THEN content
                              ELSE [content EXCEPT !.items[idx].text = r.text]
                /\ pc' = "raised"
                /\ outcome' = <<"[FORMATTER] Error formatting content: ">> \o r.error
                /\ results' = <<>>
                /\ UNCHANGED <<idx, detected>>
           ELSE /\ content' = [content EXCEPT !.items[idx].text = r.text]
                /\ \E detect \in DetectionsOn(r.text) :
                      /\ results' = Append(results,
                             [r.formatted EXCEPT !.language = Language(r.text, detect)])
                      /\ detected' = Append(detected, detect)
                /\ idx' = idx + 1
                /\ UNCHANGED <<pc, outcome>>
    /\ UNCHANGED <<keep_images_inline, before, calls, history, conv>>

\* return results
Return ==
    /\ pc = "loop"
    /\ idx > Len(content.items)
    /\ pc' = "returned"
    /\ outcome' = results
    /\ history' = Append(history, results)
    /\ UNCHANGED <<content, keep_images_inline, idx, results, before, calls, detected, conv>>

Next == Call \/ Turn \/ Return

Spec == Init /\ [][Next]_vars

\* ------------------------------------------- batches of several pages, and
\* ------------------------------------------- format() called more than once
\* what a batch may hold: a page with one markdown image and one structural
\* image, a page with a title, a page whose text holds a special token of the
\* tokenizer, and something that is no page
ItemKinds == {"image", "title", "token", "junk"}

\* the k-th of n elements of a batch, of the given kind
BatchItem(kind, k, n) ==
    IF kind = "junk" THEN NotAPage
    ELSE [Page(CASE kind = "image" -> MdImageEq
                 [] kind = "title" -> <<"#", " ", "T">>
                 [] kind = "token" -> <<"T", " ">> \o SpecialToken,
               0, IF kind = "image" THEN 1 ELSE 0)
          EXCEPT !.metadata = [file_path |-> "doc.pdf", page |-> k, page_count |-> n]]

RECURSIVE KindsUpTo(_)
KindsUpTo(n) ==
    IF n = 0 THEN {<<>>}
    ELSE LET prev == KindsUpTo(n - 1)
         IN  prev \cup {Append(ks, k) : ks \in prev, k \in ItemKinds}

\* the lists of up to MaxPages elements, and a bare page
LongBatches ==
    {[isList |-> TRUE, items |-> [k \in 1..Len(ks) |-> BatchItem(ks[k], k, Len(ks))]] :
        ks \in KindsUpTo(MaxPages)}
        \cup {[isList |-> FALSE, items |-> <<BatchItem("image", 1, 1)>>]}

InitBatch ==
    /\ content \in LongBatches
    /\ keep_images_inline \in BOOLEAN
    /\ pc = "idle"
    /\ idx = 0
    /\ results = <<>>
    /\ outcome = None
    /\ before = content
    /\ calls = 0
    /\ detected = <<>>
    /\ history = <<>>
    /\ conv = NoConv

\* format() is called on a FormatterMD, whether or not it was called before
Recall == CallWhen(TRUE)

NextBatch == Recall \/ Turn \/ Return

SpecBatch == InitBatch /\ [][NextBatch]_vars

\* --------------------------------------------- pages with markdown elements
\* the pieces of the texts with titles, list entries and links
ScanSegments ==
    {<<"#">>, <<" ">>, <<"\n">>, <<"T">>,
     <<"#", " ", "T">>,
     <<"1", ".", " ", "a">>,
     <<"-", " ", "b">>,
     <<"[", "a", "]", "(", "u", ")">>,
     <<"<", "https://", "u", ">">>}

RECURSIVE ScanTextsUpTo(_)
ScanTextsUpTo(k) ==
    IF k = 0 THEN {<<>>}
    ELSE LET prev == ScanTextsUpTo(k - 1)
         IN  prev \cup {t \o s : t \in prev, s \in ScanSegments}

ScanTexts == ScanTextsUpTo(MaxSegs)

InitScan ==
    /\ content \in {[isList |-> TRUE, items |-> <<Page(t, 0, 0)>>] : t \in ScanTexts}
    /\ keep_images_inline \in BOOLEAN
    /\ pc = "idle"
    /\ idx = 0
    /\ results = <<>>
    /\ outcome = None
    /\ before = content
    /\ calls = 0
    /\ detected = <<>>
    /\ history = <<>>
    /\ conv = NoConv

SpecScan == InitScan /\ [][Next]_vars

\* ------------------------------------------------- PDF2MarkDown and pdf2md()
\* str.lower() on the suffixes of the paths
Lower(suffix) == CASE suffix = ".PDF" -> ".pdf" [] OTHER -> suffix

\* the paths pdf2md() may be given: what is at the path (a file, nothing, or
\* a fault: the path cannot be examined) and the suffix of its name
Files == [stat : {"file", "missing", "fault"}, suffix : {".pdf", ".PDF", ".txt"}]

\* str(self.file_path)
PathOf(file) == <<"doc", file.suffix>>

\* _check_file testing the suffix before the existence of the file
CheckFileSuffixFirst(file) ==
    IF file.stat = "fault"
    THEN <<"[CHECK FILE] Invalid file: ">> \o PathOf(file) \o <<" --> ", "fault">>
    ELSE IF Lower(file.suffix) # ".pdf"
         THEN <<"[CHECK FILE] The file ">> \o PathOf(file) \o <<" is not a PDF file.">>
         ELSE IF file.stat # "file"
              THEN <<"[CHECK FILE] The file ">> \o PathOf(file) \o <<" does not exist.">>
              ELSE None

\* PDF2MarkDown._check_file: the message of the ValueError it raises, None
\* when the file passes
CheckFile(file) ==
    IF file.stat = "fault"
    THEN <<"[CHECK FILE] Invalid file: ">> \o PathOf(file) \o <<" --> ", "fault">>
    ELSE IF file.stat # "file"
         THEN <<"[CHECK FILE] The file ">> \o PathOf(file) \o <<" does not exist.">>
         ELSE IF Lower(file.suffix) # ".pdf"
              THEN <<"[CHECK FILE] The file ">> \o PathOf(file) \o <<" is not a PDF file.">>
              ELSE None

\* a dict of the extraction engine: the fields of a page, or something that
\* does not validate as a page
RawItem(kind, k, n) ==
    IF kind = "junk" THEN NotAPage
    ELSE [BatchItem(kind, k, n) EXCEPT !.isPDFResult = FALSE]

RawKinds == {"image", "title", "junk"}

RECURSIVE RawKindsUpTo(_)
RawKindsUpTo(n) ==
    IF n = 0 THEN {<<>>}
    ELSE LET prev == RawKindsUpTo(n - 1)
         IN  prev \cup {Append(ks, k) : ks \in prev, k \in RawKinds}

\* what pymupdf4llm.to_markdown may do: return a list of dicts, return one
\* bare dict, or raise
EngineResults ==
    {[kind |-> "list", isList |-> TRUE,
      items |-> [k \in 1..Len(ks) |-> RawItem(ks[k], k, Len(ks))]] : ks \in RawKindsUpTo(MaxPages)}
        \cup {[kind |-> "bare", isList |-> FALSE, items |-> <<RawItem(k, 1, 1)>>] : k \in RawKinds}
        \cup {[kind |-> "raise", isList |-> FALSE, items |-> <<>>]}

\* the dict has the fields of a PDFResult
Validates(raw) == DOMAIN raw = {"isPDFResult", "metadata", "text", "tables", "images"}

\* PDFResult.model_validate(raw) of a dict that validates
ModelValidate(raw) == [raw EXCEPT !.isPDFResult = TRUE]

\* the value convert returns, a bare dict being returned as a bare page
ConvertResultAsGiven(result) ==
    [isList |-> result.isList,
     items |-> [i \in 1..Len(result.items) |-> ModelValidate(result.items[i])]]

\* the value convert returns for the result of the engine: a list in both
\* branches of isinstance(result, list)
ConvertResult(result) ==
    [isList |-> TRUE,
     items |-> [i \in 1..Len(result.items) |-> ModelValidate(result.items[i])]]

InitConvert ==
    /\ content = [isList |-> TRUE, items |-> <<>>]
    /\ keep_images_inline \in BOOLEAN
    /\ pc = "unbuilt"
    /\ idx = 0
    /\ results = <<>>
    /\ outcome = None
    /\ before = content
    /\ calls = 0
    /\ detected = <<>>
    /\ history = <<>>
    /\ \E file \in Files, engine \in EngineResults :
          conv = [pc |-> "start", file |-> file, engine |-> engine,
                  engine_calls |-> 0, outcome |-> None]

\* convert() up to the call of the engine: self._check_file(), whose
\* ValueError ends convert()
ConvertCheck ==
    /\ conv.pc = "start"
    /\ conv' = IF CheckFile(conv.file) # None
               THEN [conv EXCEPT !.pc = "failed",
                                 !.outcome = <<"[CONVERT] Error converting PDF to Markdown: ">>
                                                 \o CheckFile(conv.file)]
               ELSE [conv EXCEPT !.pc = "checked"]
    /\ UNCHANGED <<content, keep_images_inline, pc, idx, results, outcome, before,
                   calls, detected, history>>

\* convert() from the call of the engine on: to_markdown, then the
\* validation of what it returned
ConvertExtract ==
    /\ conv.pc = "checked"
    /\ conv' =
          IF conv.engine.kind = "raise"
          THEN [conv EXCEPT !.pc = "failed", !.engine_calls = @ + 1,
                            !.outcome = <<"[CONVERT] Error converting PDF to Markdown: ",
                                          "engine error">>]
          ELSE IF \E i \in 1..Len(conv.engine.items) : ~Validates(conv.engine.items[i])
               THEN [conv EXCEPT !.pc = "failed", !.engine_calls = @ + 1,
                                 !.outcome = <<"[CONVERT] Error converting PDF to Markdown: ",
                                               "validation error for PDFResult">>]
               ELSE [conv EXCEPT !.pc = "converted", !.engine_calls = @ + 1,
                                 !.outcome = ConvertResult(conv.engine)]
    /\ UNCHANGED <<content, keep_images_inline, pc, idx, results, outcome, before,
                   calls, detected, history>>

\* pdf2md() after convert() returned: FormatterMD(markdown_content,
\* keep_images_inline), on which format() is then called
Construct ==
    /\ conv.pc = "converted"
    /\ pc = "unbuilt"
    /\ content' = conv.outcome
    /\ before' = conv.outcome
    /\ pc' = "idle"
    /\ UNCHANGED <<keep_images_inline, idx, results, outcome, calls, detected, history, conv>>

NextConvert == ConvertCheck \/ ConvertExtract \/ Construct \/ Call \/ Turn \/ Return

SpecConvert == InitConvert /\ [][NextConvert]_vars

\* ------------------------------------------------------------- the claims
\* format() has returned: outcome[i] is the result of the page before.items[i]
Returned == pc = "returned"

\* the text of page i as format() was given it
RawText(i) == before.items[i].text

\* the payload of a match of the image pattern under the reading that the
\* capture group is that of whichever alternative matched
PayloadOf(match) == IF match[1] # <<>> THEN match[1] ELSE match[2]

\* the positions at which a markdown inline image (the first alternative of
\* the image pattern) matches in t
MdImagePositions(t) == {p \in 1..Len(t) : MdImageAt(t, p, FALSE).to # 0}

\* the HTML <img> tags of t in document order
RECURSIVE HtmlTags(_, _)
HtmlTags(t, p) ==
    IF p > Len(t) THEN <<>>
    ELSE LET html == HtmlImageAt(t, p)
         IN  IF html.to # 0 THEN <<SubSeq(t, p, html.to)>> \o HtmlTags(t, html.to + 1)
             ELSE HtmlTags(t, p + 1)

\* s is a prefix of t
IsPrefix(s, t) == Len(s) <= Len(t) /\ SubSeq(t, 1, Len(s)) = s

\* C1: when format() returns there is one result per page, and the result of
\* every page has as many tables and as many images as the page has
\* structural tables and images, the i-th carrying the geometry of the i-th
\* structural entry, whatever the text holds.
C1_PositionalGeometry ==
    Returned =>
        /\ Len(outcome) = Len(before.items)
        /\ \A i \in 1..Len(outcome) :
              LET in == before.items[i]
                  out == outcome[i].elements
              IN  /\ Len(out.tables) = Len(in.tables)
                  /\ Len(out.images) = Len(in.images)
                  /\ \A k \in 1..Len(in.tables) :
                        /\ out.tables[k].bbox = in.tables[k].bbox
                        /\ out.tables[k].rows = in.tables[k].rows
                        /\ out.tables[k].columns = in.tables[k].columns
                  /\ \A k \in 1..Len(in.images) :
                        /\ out.images[k].number = in.images[k].number
                        /\ out.images[k].bbox = in.images[k].bbox
                        /\ out.images[k].width = in.images[k].width
                        /\ out.images[k].height = in.images[k].height

\* C1's case: a page returned whose text holds more table blocks than the
\* page has structural tables and fewer image matches than structural images
C1_Witness ==
    /\ Returned
    /\ Len(before.items[1].tables) = 1
    /\ Len(ExtractTables(RawText(1))) = 2
    /\ Len(before.items[1].images) = 2
    /\ Len(ExtractImages(RawText(1))) = 1
    /\ Len(outcome[1].elements.tables) = 1
    /\ Len(outcome[1].elements.images) = 2

\* C2: in reference mode the text format() returns holds no markdown inline
\* base64 image, whatever the number of structural images of the page.
C2_NoInlineImageInReferenceMode ==
    (Returned /\ ~keep_images_inline) =>
        \A i \in 1..Len(outcome) : MdImagePositions(outcome[i].text) = {}

\* C3: in reference mode, on a page whose text holds k >= 1 markdown inline
\* images and which has k structural images, no payload of the text is left
\* in the returned text, the returned text holds the reference token of the
\* hash of every payload, and so the token [IMAGE](h) of every output image
\* with a hash h.  Stated for the texts all of whose image matches are
\* markdown images.
C3_OwnHashReference ==
    (Returned /\ ~keep_images_inline) =>
        \A i \in 1..Len(outcome) :
            LET matches == ExtractImages(RawText(i))
                images == outcome[i].elements.images
            IN  (/\ Len(matches) >= 1
                 /\ Len(matches) = Len(images)
                 /\ \A k \in 1..Len(matches) : matches[k][1] # <<>>)
                => /\ \A k \in 1..Len(matches) :
                        /\ ~Contains(outcome[i].text, matches[k][1])
                        /\ Contains(outcome[i].text, ImageRef(Md5(matches[k][1])))
                   /\ \A k \in 1..Len(images) :
                        images[k].hash # None
                            => Contains(outcome[i].text, ImageRef(images[k].hash))

\* C4: the i-th output image, i within the textual image matches, has the md5
\* digest of the payload of the i-th match as its hash, the payload being the
\* capture group of whichever alternative matched (markdown image or HTML
\* <img> tag).
C4_HashOfMatchedPayload ==
    Returned =>
        \A i \in 1..Len(outcome) :
            LET matches == ExtractImages(RawText(i))
                images == outcome[i].elements.images
            IN  \A k \in 1..Len(images) :
                    (k <= Len(matches) /\ PayloadOf(matches[k]) # <<>>)
                        => images[k].hash = Md5(PayloadOf(matches[k]))

\* C5: a structural image beyond the textual image matches yields an output
\* image whose payload is None and whose hash is None.
C5_UnmatchedImageIsNone ==
    Returned =>
        \A i \in 1..Len(outcome) :
            LET matches == ExtractImages(RawText(i))
                images == outcome[i].elements.images
            IN  \A k \in 1..Len(images) :
                    k > Len(matches) => (images[k].base64 = None /\ images[k].hash = None)

\* C6: the i-th output table has the i-th textual table block of the text as
\* its content when there is one, and None otherwise; blocks beyond the
\* structural tables are dropped; and format() fails on no valid batch.
C6_TableContentByPosition ==
    /\ Returned =>
          \A i \in 1..Len(outcome) :
              LET blocks == ExtractTables(RawText(i))
                  tables == outcome[i].elements.tables
              IN  /\ Len(tables) = Len(before.items[i].tables)
                  /\ \A k \in 1..Len(tables) :
                        tables[k].content = IF k <= Len(blocks) THEN blocks[k] ELSE None
    /\ pc = "raised" => CheckContent(before) # None

\* C6's case: a page with two structural tables whose text holds one table
\* block: the first table has the block, the second None
C6_Witness ==
    /\ Returned
    /\ Len(before.items[1].tables) = 2
    /\ Len(ExtractTables(RawText(1))) = 1
    /\ outcome[1].elements.tables[1].content = ExtractTables(RawText(1))[1]
    /\ outcome[1].elements.tables[2].content = None

\* C7: in reference mode every HTML <img> tag of the raw text is in the
\* returned text, unchanged and in the same order.
C7_HtmlTagsKept ==
    (Returned /\ ~keep_images_inline) =>
        \A i \in 1..Len(outcome) : HtmlTags(outcome[i].text, 1) = HtmlTags(RawText(i), 1)

\* C8: in inline-keep mode the returned text is the raw text, and the stored
\* payload of an image paired with a non-empty payload P is the prefix of P
\* that ends with the first "=" of P.  Stated for the payloads of markdown
\* images.
C8_StoredPayloadIsPrefix ==
    (Returned /\ keep_images_inline) =>
        \A i \in 1..Len(outcome) :
            LET matches == ExtractImages(RawText(i))
                images == outcome[i].elements.images
            IN  /\ outcome[i].text = RawText(i)
                /\ \A k \in 1..Len(images) :
                      (k <= Len(matches) /\ matches[k][1] # <<>>)
                          => /\ IsPrefix(images[k].base64, matches[k][1])
                             /\ images[k].base64 # <<>>
                             /\ images[k].base64[Len(images[k].base64)] = "="
                             /\ FirstOf(images[k].base64, 1, {"="}) = Len(images[k].base64)

\* C9: text_length is the character length of the returned text, and tokens
\* the tokenizer's count of the returned text (0 for the empty text), the
\* returned text being the page's text after the rewrite.
C9_LengthOfReturnedText ==
    Returned =>
        \A i \in 1..Len(outcome) :
            /\ outcome[i].text = content.items[i].text
            /\ outcome[i].metadata.text_length = CharLen(outcome[i].text)
            /\ outcome[i].tokens =
                  IF outcome[i].text = <<>> THEN 0 ELSE EncodeCount(outcome[i].text)

\* C9's case: a page returned in reference mode whose text the rewrite made
\* shorter
C9_Witness ==
    /\ Returned
    /\ ~keep_images_inline
    /\ outcome[1].text # RawText(1)
    /\ CharLen(outcome[1].text) < CharLen(RawText(1))
    /\ outcome[1].metadata.text_length = CharLen(outcome[1].text)

\* C10: when format() has returned or failed, the pages it was given are as
\* they were before the call.
C10_InputUnchanged ==
    pc \in {"returned", "raised"} => content = before

\* a batch format() accepts: a list, not empty, of pages only
ValidBatch(c) ==
    /\ c.isList
    /\ Len(c.items) > 0
    /\ \A i \in 1..Len(c.items) : c.items[i].isPDFResult

\* the messages of the failures of the validation of the batch
ValidationErrors ==
    {<<"[FORMATTER] Error formatting content: ",
       "[FORMATTER] Content must be a List of PDFResult.">>,
     <<"[FORMATTER] Error formatting content: ", "[FORMATTER] Content is empty.">>}

C12_BarePageAccepted ==
    (~before.isList /\ pc \in {"returned", "raised"}) =>
        /\ pc = "returned"
        /\ Len(outcome) = 1
        /\ outcome[1].text = before.items[1].text

\* str(n) of a page number
Decimal == <<"1", "2", "3", "4", "5", "6", "7", "8", "9">>

\* C13: when a turn of the loop fails on page k, format() fails as a whole,
\* returning no results, and the message of the error it raises holds the
\* source path and the page number of page k.
C13_FailureCarriesPageContext ==
    (pc = "raised" /\ idx >= 1) =>
        /\ results = <<>>
        /\ \E i \in 1..Len(outcome) : outcome[i] = before.items[idx].metadata.file_path
        /\ \E i \in 1..Len(outcome) : outcome[i] = Decimal[before.items[idx].metadata.page]

\* the result of page i is what the turn built before the language detection
ResultBut(i) ==
    [outcome[i] EXCEPT !.language = None] =
        FormatItem(before.items[i], keep_images_inline).formatted

\* C14: language detection never fails the call.  On a page whose final text
\* is empty or all whitespace the detector is not called and language is
\* None; on any other page it is called, and language is what it returned, or
\* None when it raised, the other fields of the result being what they are
\* without it.
C14_LanguageBestEffort ==
    /\ pc # "raised"
    /\ Returned =>
          /\ Len(detected) = Len(outcome)
          /\ \A i \in 1..Len(outcome) :
                /\ Strip(outcome[i].text) = <<>> =>
                      detected[i] = "skipped" /\ outcome[i].language = None
                /\ Strip(outcome[i].text) # <<>> =>
                      /\ detected[i] \in DetectOutcomes
                      /\ detected[i] = "raise" => outcome[i].language = None
                      /\ detected[i] # "raise" => outcome[i].language = <<detected[i]>>
                /\ ResultBut(i)

\* the detector raised on a page with a title, and format() returned the page
C14_Witness ==
    /\ Returned
    /\ detected = <<"raise">>
    /\ outcome[1].language = None
    /\ outcome[1].elements.titles # <<>>
    /\ outcome[1].text = RawText(1)

\* a page of spaces and line breaks only: the detector was not called
C14_WitnessBlank ==
    /\ Returned
    /\ RawText(1) # <<>>
    /\ Strip(RawText(1)) = <<>>
    /\ detected = <<"skipped">>

\* the lexemes of a string
Lexemes(e) == {e[k] : k \in 1..Len(e)}

\* e is 1 to 6 # characters, whitespace, and content that is not empty, all
\* on one line
IsTitleLine(e) ==
    LET h == PastRun(e, 1, {"#"})
        c == PastRun(e, h, Spaces)
    IN  /\ "\n" \notin Lexemes(e)
        /\ h - 1 >= 1 /\ h - 1 <= 6
        /\ c > h
        /\ c <= Len(e)

\* the positions of the raw text of page i where its k-th title can be read
TitleAt(i, k) ==
    {p \in 1..Len(RawText(i)) :
        /\ LineStart(RawText(i), p)
        /\ p + Len(outcome[i].elements.titles[k]) - 1 <= Len(RawText(i))
        /\ SubSeq(RawText(i), p, p + Len(outcome[i].elements.titles[k]) - 1)
              = outcome[i].elements.titles[k]}

\* C15: every title of a result is one line of the raw text of the page: 1 to
\* 6 # characters, whitespace, then content that is not empty, with no line
\* break and no blank line before it; the titles come in the order of the
\* document.
C15_TitlesAreSingleLines ==
    Returned =>
        \A i \in 1..Len(outcome) :
            LET titles == outcome[i].elements.titles
            IN  /\ \A k \in 1..Len(titles) :
                      IsTitleLine(titles[k]) /\ TitleAt(i, k) # {}
                /\ \A k \in 1..(Len(titles) - 1) :
                      \E p \in TitleAt(i, k), q \in TitleAt(i, k + 1) : p < q

\* the spans of a sequence of matches come one after the other in the text
InDocumentOrder(spans) ==
    \A k \in 1..(Len(spans) - 1) : spans[k].to < spans[k + 1].from

\* C16: lists is the matches of the numbered-entry pattern in the order of
\* the document, then the matches of the bullet-entry pattern in the order of
\* the document; links is the bracket links in the order of the document,
\* text and url as written, then the bare autolinks in the order of the
\* document, the text of each being its url.  No entry is dropped as a
\* duplicate.
C16_ListsAndLinksOrder ==
    Returned =>
        \A i \in 1..Len(outcome) :
            LET t == RawText(i)
                ordered == LineSpans(t, "ordered")
                unordered == LineSpans(t, "unordered")
                md == MdLinkMatches(t)
                html == AutoLinkMatches(t)
                lists == outcome[i].elements.lists
                links == outcome[i].elements.links
            IN  /\ InDocumentOrder(ordered) /\ InDocumentOrder(unordered)
                /\ InDocumentOrder(md) /\ InDocumentOrder(html)
                /\ Len(lists) = Len(ordered) + Len(unordered)
                /\ \A k \in 1..Len(ordered) :
                      lists[k] = SubSeq(t, ordered[k].from, ordered[k].to)
                /\ \A k \in 1..Len(unordered) :
                      lists[Len(ordered) + k] = SubSeq(t, unordered[k].from, unordered[k].to)
                /\ Len(links) = Len(md) + Len(html)
                /\ \A k \in 1..Len(md) :
                      /\ links[k].text = md[k].text
                      /\ links[k].url = md[k].url
                      /\ SubSeq(t, md[k].from, md[k].to)
                            = <<"[">> \o links[k].text \o <<"]", "(">> \o links[k].url \o <<")">>
                /\ \A k \in 1..Len(html) :
                      /\ links[Len(md) + k].url = html[k].url
                      /\ links[Len(md) + k].text = html[k].url
                      /\ SubSeq(t, html[k].from, html[k].to)
                            = <<"<">> \o html[k].url \o <<">">>

\* a bare autolink before a bracket link in the text, after it in links
C16_Witness ==
    /\ Returned
    /\ Len(outcome[1].elements.links) = 2
    /\ AutoLinkMatches(RawText(1)) # <<>>
    /\ MdLinkMatches(RawText(1)) # <<>>
    /\ AutoLinkMatches(RawText(1))[1].to < MdLinkMatches(RawText(1))[1].from
    /\ outcome[1].elements.links[1].text # outcome[1].elements.links[1].url
    /\ outcome[1].elements.links[2].text = outcome[1].elements.links[2].url

\* a bullet entry before a numbered entry in the text, after it in lists
C16_WitnessLists ==
    /\ Returned
    /\ Len(outcome[1].elements.lists) = 2
    /\ LineSpans(RawText(1), "unordered") # <<>>
    /\ LineSpans(RawText(1), "ordered") # <<>>
    /\ LineSpans(RawText(1), "unordered")[1].to < LineSpans(RawText(1), "ordered")[1].from

\* the results of a call, the language apart
Comparable(res) == [i \in 1..Len(res) |-> [res[i] EXCEPT !.language = None]]

\* C19: all the calls of format() on one FormatterMD that returned, returned
\* equal results: the same titles, lists, links, tables, images, text,
\* text_length and tokens.
C19_Repeatable ==
    \A i \in 1..Len(history), j \in 1..Len(history) :
        Comparable(history[i]) = Comparable(history[j])

\* C20: the elements of a result describe its text: every title, every list
\* entry, the url of every link and the content of every table that has one
\* occurs in the text of the result.
C20_ElementsDescribeText ==
    Returned =>
        \A i \in 1..Len(outcome) :
            LET el == outcome[i].elements
                text == outcome[i].text
            IN  /\ \A k \in 1..Len(el.titles) : Contains(text, el.titles[k])
                /\ \A k \in 1..Len(el.lists) : Contains(text, el.lists[k])
                /\ \A k \in 1..Len(el.links) : Contains(text, el.links[k].url)
                /\ \A k \in 1..Len(el.tables) :
                      el.tables[k].content # None => Contains(text, el.tables[k].content)

\* C17: what convert() returns is a list of pages, whatever the engine
\* returned: for a list of n dicts, the n pages in the same order; for one
\* bare dict, a list of that one page.
C17_ConvertReturnsList ==
    conv.pc = "converted" =>
        /\ conv.outcome.isList
        /\ Len(conv.outcome.items) = Len(conv.engine.items)
        /\ conv.engine.kind = "bare" => Len(conv.outcome.items) = 1
        /\ \A i \in 1..Len(conv.outcome.items) :
              /\ conv.outcome.items[i].isPDFResult
              /\ conv.outcome.items[i].text = conv.engine.items[i].text
              /\ conv.outcome.items[i].metadata = conv.engine.items[i].metadata
              /\ conv.outcome.items[i].tables = conv.engine.items[i].tables
              /\ conv.outcome.items[i].images = conv.engine.items[i].images

\* the engine returned one bare dict, and format() returned its page
C17_Witness ==
    /\ conv.pc = "converted"
    /\ conv.engine.kind = "bare"
    /\ conv.outcome.isList
    /\ Len(conv.outcome.items) = 1
    /\ Returned
    /\ Len(outcome) = 1

\* the file is where the path says and has the extension of a PDF
FileIsPdf(file) == file.stat = "file" /\ file.suffix \in {".pdf", ".PDF"}

\* what convert() raises for the message of a failed check
ConvertError(message) == <<"[CONVERT] Error converting PDF to Markdown: ">> \o message

\* C18: the engine is called only after the check of the file has passed.
\* When the path is no file (tested first) or has no .pdf extension, the
\* engine is never called, convert() fails with the message of the check,
\* "does not exist" or "is not a PDF file", inside "Error converting PDF to
\* Markdown", and no FormatterMD is constructed; a fault inside the check is
\* reported as "Invalid file".
C18_CheckBeforeEngine ==
    /\ conv.engine_calls > 0 => FileIsPdf(conv.file)
    /\ conv.pc \in {"checked", "converted"} => FileIsPdf(conv.file)
    /\ conv.pc = "failed" => pc = "unbuilt"
    /\ (conv.pc # "start" /\ ~FileIsPdf(conv.file)) =>
          /\ conv.pc = "failed"
          /\ conv.engine_calls = 0
          /\ pc = "unbuilt"
          /\ conv.file.stat = "missing" =>
                conv.outcome = ConvertError(<<"[CHECK FILE] The file ", "doc",
                                              conv.file.suffix, " does not exist.">>)
          /\ (conv.file.stat = "file") =>
                conv.outcome = ConvertError(<<"[CHECK FILE] The file ", "doc",
                                              conv.file.suffix, " is not a PDF file.">>)
          /\ conv.file.stat = "fault" =>
                SubSeq(conv.outcome, 1, 2) = ConvertError(<<"[CHECK FILE] Invalid file: ">>)

\* a path that is no file and has no .pdf extension: convert() failed on the
\* existence of the file, and the engine was not called
C18_Witness ==
    /\ conv.pc = "failed"
    /\ conv.file = [stat |-> "missing", suffix |-> ".txt"]
    /\ conv.engine_calls = 0
    /\ conv.outcome[3] = "doc"
    /\ conv.outcome[5] = " does not exist."
    /\ pc = "unbuilt"

=============================================================================
